---- MODULE Spec2Model ----
(***************************************************************************)
(* Model of the AI Website Builder (Aqibahmed12/Website-Builder-Ai).       *)
(*                                                                         *)
(*   Spec          one call of GitHubDeployer.deploy_to_github_pages       *)
(*                 (src/ai/deploy.py) against a hosting service that keeps *)
(*                 repositories and file versions, answers each request,   *)
(*                 and may fail.                                           *)
(*   SpecRedeploy  the same, with the call repeated for the same name.     *)
(*   SpecSilent    Spec, with a service that may never answer a request.   *)
(*   SpecCoerce    WebsiteGenerator.generate_website and chat_response     *)
(*                 (src/ai/utils.py) applied to the text a model returns.  *)
(*   SpecSession   the page's session (src/main.py): generate, chat, save  *)
(*                 and restore acting on current_files and versions.       *)
(*                                                                         *)
(* Strings that the code takes apart (repository names) are sequences of   *)
(* one-character strings.  File contents are not modelled in Spec: the     *)
(* deploy code only base64-encodes them into the request body.             *)
(***************************************************************************)
EXTENDS Integers, Sequences, FiniteSets, TLC

(***************************************************************************)
(* Bounds                                                                  *)
(***************************************************************************)
\* number of deploy invocations in one behaviour
MaxDeploys == 2
\* largest FileSet handed to deploy
MaxFiles == 2

NoValue == "None"

(***************************************************************************)
(* Inputs                                                                  *)
(***************************************************************************)
\* self.token: None, "", a token the service accepts, a token it rejects
Tokens == {NoValue, "", "good", "bad"}
ValidTokens == {"good"}
Login == "octo"

FileNames == {"index.html", "styles.css", "script.js"}

\* "https://host/group/My Site "
ExampleRaw ==
    << "h", "t", "t", "p", "s", ":", "/", "/", "h", "o", "s", "t", "/",
       "g", "r", "o", "u", "p", "/", "M", "y", " ", "S", "i", "t", "e", " " >>

\* raw repository names typed by the user
RawNames ==
    { <<"s">>,
      <<" ", "a", " ", "b", " ">>,
      <<"h", "/", "g", "/", "a", " ", "b", " ">>,
      <<"g", "/", "s", "/">>,
      <<"a", "!">>,
      <<" ">>,
      ExampleRaw }

\* a FileSet is a dict; iteration follows insertion order: a sequence of
\* distinct file names
FileSets ==
    { fs \in UNION { [1..n -> FileNames] : n \in 0..MaxFiles } :
        \A i, j \in 1..Len(fs) : i # j => fs[i] # fs[j] }

(***************************************************************************)
(* Step 1 of deploy: sanitising the repository name                        *)
(***************************************************************************)
Whitespace == {" ", "\t", "\n"}

RECURSIVE LStrip(_, _)
LStrip(s, set) ==
    IF s # <<>> /\ Head(s) \in set THEN LStrip(Tail(s), set) ELSE s

RECURSIVE RStrip(_, _)
RStrip(s, set) ==
    IF s # <<>> /\ s[Len(s)] \in set
    THEN RStrip(SubSeq(s, 1, Len(s) - 1), set)
    ELSE s

\* str.strip()
Strip(s) == RStrip(LStrip(s, Whitespace), Whitespace)

SetMax(S) == CHOOSE x \in S : \A y \in S : y <= x

\* s.split("/")[-1]
LastSegment(s) ==
    LET cuts == { i \in 1..Len(s) : s[i] = "/" }
    IN  IF cuts = {} THEN s ELSE SubSeq(s, SetMax(cuts) + 1, Len(s))

\* mutant: spaces left in the name
ReplaceSpaces_Kept(s) == s

\* s.replace(" ", "-")
ReplaceSpaces(s) == [ i \in 1..Len(s) |-> IF s[i] = " " THEN "-" ELSE s[i] ]

Sanitize(raw) ==
    LET t == Strip(raw)
        u == IF \E i \in 1..Len(t) : t[i] = "/"
             THEN LastSegment(RStrip(t, {"/"}))
             ELSE t
    IN  ReplaceSpaces(u)

(***************************************************************************)
(* The hosting service                                                     *)
(***************************************************************************)
\* characters a repository name may hold; the service replaces the others
\* when it creates a repository
NameChars == {"a", "b", "g", "h", "s", "-", "_", ".", "M", "S", "e", "i", "t", "y"}

Canon(name) ==
    [ i \in 1..Len(name) |-> IF name[i] \in NameChars THEN name[i] ELSE "-" ]

ValidName(name) == name # <<>>

NoFiles == [ f \in FileNames |-> 0 ]

\* the service before the first deploy: no repository, or one that exists
\* already, with or without a first version of index.html
InitialServices ==
    { [ r \in {} |-> NoFiles ],
      [ r \in { <<"s">> } |-> NoFiles ],
      [ r \in { <<"s">> } |-> [ NoFiles EXCEPT !["index.html"] = 1 ] ],
      [ r \in { <<"s">>, <<"a", "-", "b">> } |->
            [ NoFiles EXCEPT !["index.html"] = 1, !["styles.css"] = 2 ] ] }

VARIABLES
    token,          \* self.token
    svc,            \* hosting service: repository name -> file -> version (0: absent)
    pc,             \* position of the running deploy call
    raw_name,       \* the repo_name argument
    files,          \* the files argument
    repo_name,      \* local repo_name
    username,       \* local username
    idx,            \* position of the upload loop in files
    sha,            \* local sha of the file being uploaded
    uploaded_count, \* local uploaded_count
    result,         \* outcome of the call: [kind, url]
    calls,          \* network calls of this invocation, in order
    runs,           \* deploy invocations started
    faulted,        \* some answer so far was not the one the service's state dictates
    prev,           \* the previous invocation: [kind, repo, repos]
    llm_src,        \* what the model was asked to put out: [files, shape, wrapper]
    llm_text,       \* the text the model call returns
    prompt,         \* the prompt argument of generate_website
    include_backend,\* the include_backend argument of generate_website
    gen_out,        \* what generate_website returned or raised
    chat_out,       \* what chat_response returned or raised
    heap,           \* the dict objects of the session, by identity
    current_files,  \* st.session_state.current_files: a reference into heap
    versions,       \* st.session_state.versions: [files: reference, message]
    chat_messages,  \* st.session_state.chat_messages: [role, text]
    llm_error,      \* st.session_state.llm_error
    ops,            \* session operations performed
    last_op         \* the last session operation: [op, how, before, src]

deployVars == << token, svc, pc, raw_name, files, repo_name, username, idx, sha,
                 uploaded_count, result, calls, runs, faulted, prev >>

genVars == << llm_src, llm_text, prompt, include_backend, gen_out, chat_out >>

sessVars == << heap, current_files, versions, chat_messages, llm_error, ops, last_op >>

vars == << deployVars, genVars, sessVars >>

Running == [ kind |-> "running", url |-> NoValue ]
Failed(kind) == [ kind |-> kind, url |-> NoValue ]

\* f"https://{username}.github.io/{repo_name}/"
PagesUrl(user, repo) == << "https://", user, ".github.io/", repo, "/" >>

Call(op, repo, path, s, status) ==
    [ op |-> op, repo |-> repo, path |-> path, sha |-> s, status |-> status ]

NoPrev == [ kind |-> NoValue, repo |-> <<>>, repos |-> {} ]

\* no model call made, nothing generated
GenIdle ==
    /\ llm_src = [ files |-> << >>, shape |-> NoValue, wrapper |-> NoValue ]
    /\ llm_text = << >>
    /\ prompt = ""
    /\ include_backend = "None"
    /\ gen_out = [ kind |-> "none", files |-> << >>, metadata |-> << >>, raw |-> << >> ]
    /\ chat_out = [ kind |-> "none", dict |-> << >>, text |-> << >> ]

DeployInit(tokens, services) ==
    /\ token \in tokens
    /\ svc \in services
    /\ pc = "idle"
    /\ raw_name = <<>>
    /\ files = <<>>
    /\ repo_name = <<>>
    /\ username = NoValue
    /\ idx = 1
    /\ sha = 0
    /\ uploaded_count = 0
    /\ result = Running
    /\ calls = <<>>
    /\ runs = 0
    /\ faulted = FALSE
    /\ prev = NoPrev

\* the placeholder FileSet of a new session (main.py lines 57-62)
Placeholder ==
    [ k \in {"index.html", "styles.css", "script.js"} |->
        [ t |-> "str",
          s |-> CASE k = "index.html" -> ""
                  [] k = "styles.css" -> "/* styles */"
                  [] k = "script.js" -> "// js",
          m |-> << >> ] ]

NoSrc == [ files |-> << >>, shape |-> NoValue, wrapper |-> NoValue ]

NoOp == [ op |-> NoValue, how |-> NoValue, before |-> << >>, src |-> NoSrc ]

\* "Initialize session state" (main.py lines 53-64)
SessionInit ==
    /\ heap = << Placeholder >>
    /\ current_files = 1
    /\ versions = << >>
    /\ chat_messages = << >>
    /\ llm_error = NoValue
    /\ ops = 0
    /\ last_op = NoOp

Init ==
    /\ DeployInit(Tokens, InitialServices)
    /\ GenIdle
    /\ SessionInit

(***************************************************************************)
(* deploy_to_github_pages, one action per network round trip               *)
(***************************************************************************)

\* mutant: only None counts as a missing token
TokenMissing_OnlyNone(t) == t = NoValue

\* "if not self.token" (line 14)
TokenMissing(t) == t \in {NoValue, ""}

\* entry: the token test and the sanitising of the name (lines 14-23)
Enter(raw, fs) ==
    /\ runs' = runs + 1
    /\ raw_name' = raw
    /\ files' = fs
    /\ calls' = <<>>
    /\ username' = NoValue
    /\ idx' = 1
    /\ sha' = 0
    /\ uploaded_count' = 0
    /\ IF TokenMissing(token)
       THEN /\ result' = Failed("AuthError")
            /\ pc' = "done"
            /\ repo_name' = raw
       ELSE /\ result' = Running
            /\ pc' = "user"
            /\ repo_name' = Sanitize(raw)
    /\ UNCHANGED << token, svc, faulted >>
    /\ UNCHANGED << genVars, sessVars >>

Deploy(raw, fs) ==
    /\ pc = "idle"
    /\ Enter(raw, fs)
    /\ UNCHANGED prev

\* the deploy button pressed again with the same repository name
Redeploy(fs) ==
    /\ pc = "done"
    /\ runs < MaxDeploys
    /\ prev' = [ kind |-> result.kind, repo |-> repo_name, repos |-> DOMAIN svc ]
    /\ Enter(raw_name, fs)

\* mutant: the test of line 88 left out
LoopPc_NoZeroTest(i, n) ==
    IF i <= Len(files) THEN "probe" ELSE "pages"

\* where the call stands once the upload loop is at position i with n uploads
\* (the loop test of line 67 and the test of line 88)
LoopPc(i, n) ==
    IF i <= Len(files) THEN "probe"
    ELSE IF n = 0 THEN "done" ELSE "pages"

LoopResult(i, n) ==
    IF i > Len(files) /\ n = 0 THEN Failed("UploadError") ELSE Running

\* GET /user (lines 31-37)
UserAnswers == {"login", "nologin", "rejected", "raise"}

\* mutant: the test of line 36 left out
UserProceeds_AnyOk(ans) == ans \in {"login", "nologin"}

\* status 200 and a "login" in the body (lines 32-37)
UserProceeds(ans) == ans = "login"

GetUser(ans) ==
    /\ pc = "user"
    /\ ans \in UserAnswers
    /\ ans = "login" => token \in ValidTokens
    /\ calls' = Append(calls, Call("GET user", NoValue, NoValue, 0, ans))
    /\ faulted' = (faulted \/ ans # (IF token \in ValidTokens THEN "login" ELSE "rejected"))
    /\ CASE UserProceeds(ans) ->
              /\ username' = Login
              /\ pc' = "create"
              /\ result' = Running
         [] ans = "raise" ->
              /\ pc' = "done"
              /\ result' = Failed("NetworkError")
              /\ UNCHANGED username
         [] OTHER ->
              /\ pc' = "done"
              /\ result' = Failed("AuthError")
              /\ UNCHANGED username
    /\ UNCHANGED << token, svc, raw_name, files, repo_name, idx, sha,
                    uploaded_count, runs, prev >>
    /\ UNCHANGED << genVars, sessVars >>

\* what the service's state dictates for POST /user/repos
HonestCreate(name) ==
    IF ValidName(name) /\ Canon(name) \notin DOMAIN svc THEN "created" ELSE "conflict"

CreateAnswers == {"created", "created_unnamed", "conflict", "other", "raise"}

\* the branch taken on the creation response (lines 47, 50, 61)
CreateBranch(ans) ==
    CASE ans \in {"created", "created_unnamed"} -> "upload"
      [] ans = "conflict" -> "check"
      [] ans = "raise" -> "raise"
      [] OTHER -> "fail"

\* mutant: the name in the creation response ignored
ConfirmedName_Ignored(ans, name) == name

\* repo_resp.json().get("name", repo_name) (line 49)
ConfirmedName(ans, name) == IF ans = "created" THEN Canon(name) ELSE name

\* POST /user/repos (lines 40-49, 61-63)
CreateRepo(ans) ==
    /\ pc = "create"
    /\ ans \in CreateAnswers
    /\ ans \in {"created", "created_unnamed"} => HonestCreate(repo_name) = "created"
    /\ calls' = Append(calls, Call("POST repos", repo_name, NoValue, 0, ans))
    /\ faulted' = (faulted \/ ans # HonestCreate(repo_name))
    /\ svc' = IF ans \in {"created", "created_unnamed"}
              THEN [ r \in DOMAIN svc \cup {Canon(repo_name)} |->
                       IF r \in DOMAIN svc THEN svc[r] ELSE NoFiles ]
              ELSE svc
    /\ CASE CreateBranch(ans) = "upload" ->
              /\ repo_name' = ConfirmedName(ans, repo_name)
              /\ pc' = LoopPc(1, 0)
              /\ result' = LoopResult(1, 0)
         [] CreateBranch(ans) = "check" ->
              /\ pc' = "check"
              /\ UNCHANGED << repo_name, result >>
         [] CreateBranch(ans) = "fail" ->
              /\ pc' = "done"
              /\ result' = Failed("RepoCreateError")
              /\ UNCHANGED repo_name
         [] CreateBranch(ans) = "raise" ->
              /\ pc' = "done"
              /\ result' = Failed("NetworkError")
              /\ UNCHANGED repo_name
    /\ UNCHANGED << token, raw_name, files, username, idx, sha,
                    uploaded_count, runs, prev >>
    /\ UNCHANGED << genVars, sessVars >>

CheckAnswers == {"found", "notfound", "raise"}

\* mutant: the recheck's answer ignored
CheckProceeds_Always(ans) == TRUE

\* "if check_resp.status_code == 200" (line 55)
CheckProceeds(ans) == ans = "found"

\* GET /repos/{username}/{repo_name} after a 422 (lines 50-60)
CheckRepo(ans) ==
    /\ pc = "check"
    /\ ans \in CheckAnswers
    /\ ans = "found" => repo_name \in DOMAIN svc
    /\ calls' = Append(calls, Call("GET repo", repo_name, NoValue, 0, ans))
    /\ faulted' = (faulted \/ ans # (IF repo_name \in DOMAIN svc THEN "found" ELSE "notfound"))
    /\ CASE ans = "raise" ->
              /\ pc' = "done"
              /\ result' = Failed("NetworkError")
         [] ans # "raise" /\ CheckProceeds(ans) ->
              /\ pc' = LoopPc(1, 0)
              /\ result' = LoopResult(1, 0)
         [] OTHER ->
              /\ pc' = "done"
              /\ result' = Failed("RepoCreateError")
    /\ UNCHANGED << token, svc, raw_name, files, repo_name, username, idx, sha,
                    uploaded_count, runs, prev >>
    /\ UNCHANGED << genVars, sessVars >>

\* the version of a file the service holds (0: no such file or repository)
Stored(repo, path) == IF repo \in DOMAIN svc THEN svc[repo][path] ELSE 0

ProbeAnswers == {"found", "notfound", "raise"}

\* GET .../contents/{name} (lines 69-73)
Probe(ans) ==
    /\ pc = "probe"
    /\ ans \in ProbeAnswers
    /\ ans = "found" => Stored(repo_name, files[idx]) # 0
    /\ LET v == IF ans = "found" THEN Stored(repo_name, files[idx]) ELSE 0
       IN  /\ calls' = Append(calls, Call("GET contents", repo_name, files[idx], v, ans))
           /\ sha' = v
    /\ faulted' = (faulted \/ ans # (IF Stored(repo_name, files[idx]) # 0
                                     THEN "found" ELSE "notfound"))
    /\ IF ans = "raise"
       THEN /\ pc' = "done"
            /\ result' = Failed("NetworkError")
       ELSE /\ pc' = "put"
            /\ UNCHANGED result
    /\ UNCHANGED << token, svc, raw_name, files, repo_name, username, idx,
                    uploaded_count, runs, prev >>
    /\ UNCHANGED << genVars, sessVars >>

\* what the service's state dictates for a create-or-update carrying token s
HonestPut(repo, path, s) ==
    IF repo \in DOMAIN svc /\ Stored(repo, path) = s THEN "ok" ELSE "rejected"

PutAnswers == {"ok", "rejected", "raise"}

\* "if put_resp.status_code in [200, 201]" (line 83)
PutCounts(ans) == ans = "ok"

\* mutant: the version token never put into the request
SentSha_Never(s) == 0

\* "if sha: data['sha'] = sha" (lines 80-81); 0: the request carries no token
SentSha(s) == IF s # 0 THEN s ELSE 0

\* PUT .../contents/{name} (lines 75-86), then the loop test and line 88
Put(ans) ==
    /\ pc = "put"
    /\ ans \in PutAnswers
    /\ ans = "ok" => HonestPut(repo_name, files[idx], SentSha(sha)) = "ok"
    /\ calls' = Append(calls, Call("PUT contents", repo_name, files[idx], SentSha(sha), ans))
    /\ faulted' = (faulted \/ ans # HonestPut(repo_name, files[idx], SentSha(sha)))
    /\ svc' = IF ans = "ok"
              THEN [ svc EXCEPT ![repo_name][files[idx]] = @ + 1 ]
              ELSE svc
    /\ IF ans = "raise"
       THEN /\ pc' = "done"
            /\ result' = Failed("NetworkError")
            /\ UNCHANGED << uploaded_count, idx >>
       ELSE LET n == IF PutCounts(ans) THEN uploaded_count + 1 ELSE uploaded_count
            IN  /\ uploaded_count' = n
                /\ idx' = idx + 1
                /\ pc' = LoopPc(idx + 1, n)
                /\ result' = LoopResult(idx + 1, n)
    /\ UNCHANGED << token, raw_name, files, repo_name, username, sha, runs, prev >>
    /\ UNCHANGED << genVars, sessVars >>

PagesAnswers == {"ok", "error", "raise"}

\* mutant: no try/except around the call
PagesResult_Propagates(ans) ==
    IF ans = "raise"
    THEN [ kind |-> "NetworkError", url |-> NoValue ]
    ELSE [ kind |-> "ok", url |-> << "https://", username, ".github.io/", repo_name, "/" >> ]

\* the try/except around the call and the return that follows (lines 92-101)
PagesResult(ans) == [ kind |-> "ok", url |-> PagesUrl(username, repo_name) ]

\* POST .../pages inside try/except, then the return (lines 91-101)
EnablePages(ans) ==
    /\ pc = "pages"
    /\ ans \in PagesAnswers
    /\ calls' = Append(calls, Call("POST pages", repo_name, NoValue, 0, ans))
    /\ faulted' = (faulted \/ ans # "ok")
    /\ pc' = "done"
    /\ result' = PagesResult(ans)
    /\ UNCHANGED << token, svc, raw_name, files, repo_name, username, idx, sha,
                    uploaded_count, runs, prev >>
    /\ UNCHANGED << genVars, sessVars >>

Next ==
    \/ \E raw \in RawNames, fs \in FileSets : Deploy(raw, fs)
    \/ \E ans \in UserAnswers : GetUser(ans)
    \/ \E ans \in CreateAnswers : CreateRepo(ans)
    \/ \E ans \in CheckAnswers : CheckRepo(ans)
    \/ \E ans \in ProbeAnswers : Probe(ans)
    \/ \E ans \in PutAnswers : Put(ans)
    \/ \E ans \in PagesAnswers : EnablePages(ans)

Spec == Init /\ [][Next]_vars

NextRedeploy ==
    \/ Next
    \/ \E fs \in FileSets : Redeploy(fs)

SpecRedeploy == Init /\ [][NextRedeploy]_vars

\* positions at which the call is inside requests.get / post / put
CallSites == {"user", "create", "check", "probe", "put", "pages"}

PendingOp(p) ==
    CASE p = "user" -> "GET user"
      [] p = "create" -> "POST repos"
      [] p = "check" -> "GET repo"
      [] p = "probe" -> "GET contents"
      [] p = "put" -> "PUT contents"
      [] p = "pages" -> "POST pages"

\* the service never answers the request.  No requests.* call of deploy.py
\* passes timeout= (lines 31, 40, 53, 70, 82, 94), and requests then waits
\* without limit: the call stays inside the request, and no statement of the
\* function runs after it.
NoAnswer ==
    /\ pc \in CallSites
    /\ pc' = "waiting"
    /\ calls' = Append(calls,
                       Call(PendingOp(pc),
                            IF pc = "user" THEN NoValue ELSE repo_name,
                            IF pc \in {"probe", "put"} THEN files[idx] ELSE NoValue,
                            0, "unanswered"))
    /\ faulted' = TRUE
    /\ UNCHANGED << token, svc, raw_name, files, repo_name, username, idx, sha,
                    uploaded_count, result, runs, prev >>
    /\ UNCHANGED << genVars, sessVars >>

NextSilent ==
    \/ Next
    \/ NoAnswer

\* the interpreter keeps running the call whenever it has a step to take
SpecSilent == Init /\ [][NextSilent]_vars /\ WF_vars(NextSilent)

(***************************************************************************)
(* Model text and its coercion (src/ai/utils.py)                           *)
(*                                                                         *)
(* The text a model returns is a sequence of lexical tokens [k, v]:        *)
(* punctuation, JSON string literals, whitespace, code-fence markers and   *)
(* plain words.  A JSON value is [t, s, m]: a string s (t = "str"), an     *)
(* object m, a function from keys to values (t = "obj"), or an array m, a  *)
(* sequence of values (t = "arr").                                         *)
(***************************************************************************)
Tok(k, v) == [ k |-> k, v |-> v ]
LBrace == Tok("punct", "{")
RBrace == Tok("punct", "}")
Colon == Tok("punct", ":")
Comma == Tok("punct", ",")
LBracket == Tok("punct", "[")
RBracket == Tok("punct", "]")
Space == Tok("ws", " ")
Newline == Tok("ws", "\n")
\* the markdown code-fence marker, three backquotes
Fence == Tok("fence", "fence")
Word(w) == Tok("word", w)
Lit(x) == Tok("str", x)

EmptyMap == [ k \in {} |-> 0 ]
StrVal(x) == [ t |-> "str", s |-> x, m |-> EmptyMap ]
ObjVal(f) == [ t |-> "obj", s |-> "", m |-> f ]
ArrVal(q) == [ t |-> "arr", s |-> "", m |-> q ]

\* dict[key] = value
MapPut(f, key, value) ==
    [ k \in DOMAIN f \cup {key} |-> IF k = key THEN value ELSE f[k] ]

ParseFail == [ ok |-> FALSE, val |-> StrVal(""), pos |-> 0 ]
Parsed(v, p) == [ ok |-> TRUE, val |-> v, pos |-> p ]

\* the first position from i on that holds no whitespace
RECURSIVE SkipWs(_, _)
SkipWs(t, i) ==
    IF i <= Len(t) /\ t[i].k = "ws" THEN SkipWs(t, i + 1) ELSE i

\* json.loads: the decoder for a value starting at position i, for the
\* members of an object whose next key is expected at position i, and for
\* the elements of an array whose next element is expected at position i
RECURSIVE ParseValue(_, _), ParseMembers(_, _, _), ParseElements(_, _, _)
ParseValue(t, i) ==
    IF i > Len(t) THEN ParseFail
    ELSE IF t[i].k = "str" THEN Parsed(StrVal(t[i].v), i + 1)
    ELSE IF t[i] = LBrace
         THEN LET j == SkipWs(t, i + 1)
              IN  IF j <= Len(t) /\ t[j] = RBrace
                  THEN Parsed(ObjVal(EmptyMap), j + 1)
                  ELSE ParseMembers(t, j, EmptyMap)
    ELSE IF t[i] = LBracket
         THEN LET j == SkipWs(t, i + 1)
              IN  IF j <= Len(t) /\ t[j] = RBracket
                  THEN Parsed(ArrVal(<< >>), j + 1)
                  ELSE ParseElements(t, j, << >>)
    ELSE ParseFail

ParseMembers(t, i, acc) ==
    IF i > Len(t) \/ t[i].k # "str" THEN ParseFail
    ELSE LET c == SkipWs(t, i + 1)
         IN  IF c > Len(t) \/ t[c] # Colon THEN ParseFail
             ELSE LET v == ParseValue(t, SkipWs(t, c + 1))
                  IN  IF ~v.ok THEN ParseFail
                      ELSE LET acc2 == MapPut(acc, t[i].v, v.val)
                               n == SkipWs(t, v.pos)
                           IN  IF n > Len(t) THEN ParseFail
                               ELSE IF t[n] = RBrace THEN Parsed(ObjVal(acc2), n + 1)
                               ELSE IF t[n] = Comma
                                    THEN ParseMembers(t, SkipWs(t, n + 1), acc2)
                               ELSE ParseFail

ParseElements(t, i, acc) ==
    LET v == ParseValue(t, i)
    IN  IF ~v.ok THEN ParseFail
        ELSE LET acc2 == Append(acc, v.val)
                 n == SkipWs(t, v.pos)
             IN  IF n > Len(t) THEN ParseFail
                 ELSE IF t[n] = RBracket THEN Parsed(ArrVal(acc2), n + 1)
                 ELSE IF t[n] = Comma THEN ParseElements(t, SkipWs(t, n + 1), acc2)
                 ELSE ParseFail

\* json.loads(text): one value, whitespace around it allowed, nothing else
JsonLoads(t) ==
    LET v == ParseValue(t, SkipWs(t, 1))
    IN  IF v.ok /\ SkipWs(t, v.pos) > Len(t) THEN v ELSE ParseFail

\* str.strip() on a token sequence
RECURSIVE StripText(_)
StripText(t) ==
    IF t # <<>> /\ t[1].k = "ws" THEN StripText(Tail(t))
    ELSE IF t # <<>> /\ t[Len(t)].k = "ws" THEN StripText(SubSeq(t, 1, Len(t) - 1))
    ELSE t

\* _default_index(prompt), _default_css(), _default_js(), _default_backend(type)
DefaultIndex(pr) == StrVal("fallback index: " \o pr)
DefaultCss == StrVal("fallback css")
DefaultJs == StrVal("fallback js")
DefaultBackend(type) ==
    IF type = "FastAPI" THEN StrVal("fallback FastAPI") ELSE StrVal("fallback Flask")

\* mutant: the default written whether or not the key is present
FillDefault_Overwrite(f, key, value) ==
    [ k \in DOMAIN f \cup {key} |-> IF k = key THEN value ELSE f[k] ]

\* files[key] = default "if key not in files"
FillDefault(f, key, value) == IF key \in DOMAIN f THEN f ELSE MapPut(f, key, value)

\* "Ensure required files exist or provide defaults" (lines 194-202)
WithDefaults(f, pr, backend) ==
    LET f1 == FillDefault(f, "index.html", DefaultIndex(pr))
        f2 == FillDefault(f1, "styles.css", DefaultCss)
        f3 == FillDefault(f2, "script.js", DefaultJs)
    IN  IF backend # "None" THEN FillDefault(f3, "backend.py", DefaultBackend(backend))
        ELSE f3

GenError(kind, t) == [ kind |-> kind, files |-> EmptyMap, metadata |-> EmptyMap, raw |-> t ]

\* parsed.get(key, {})
GetOr(obj, key) == IF key \in DOMAIN obj THEN obj[key] ELSE ObjVal(EmptyMap)

\* generate_website after the model call (lines 187-204)
GenerateWebsite(t, pr, backend) ==
    LET p == JsonLoads(t)
    IN  IF ~p.ok THEN GenError("RuntimeError", t)
        ELSE IF p.val.t # "obj" THEN GenError("AttributeError", <<>>)
        ELSE LET fv == GetOr(p.val.m, "files")
                 md == GetOr(p.val.m, "metadata")
             IN  IF fv.t # "obj" THEN GenError("TypeError", <<>>)
                 ELSE [ kind |-> "ok",
                        files |-> WithDefaults(fv.m, pr, backend),
                        metadata |-> IF md.t = "obj" THEN md.m ELSE EmptyMap,
                        raw |-> <<>> ]

\* chat_response after the model call (lines 234-245)
ChatResponse(t) ==
    LET p == JsonLoads(t)
    IN  IF p.ok /\ p.val.t = "obj" /\ "files_updated" \in DOMAIN p.val.m
        THEN [ kind |-> "dict", dict |-> p.val.m, text |-> <<>> ]
        ELSE [ kind |-> "text", dict |-> EmptyMap, text |-> StripText(t) ]


(***************************************************************************)
(* SpecCoerce: generate_website and chat_response applied to model text    *)
(***************************************************************************)
GenKeys == {"index.html", "styles.css", "script.js", "about.html", "backend.py"}
KeyOrder == << "index.html", "styles.css", "script.js", "about.html", "backend.py" >>
Contents == {"x", "y"}
Prompts == {"shop"}
Backends == {"None", "Flask", "FastAPI"}

\* file mappings the model may be asked to put out: file name -> content
SourceMaps == UNION { [K -> Contents] : K \in SUBSET GenKeys }

\* {"files": m} | {"files": m, "metadata": {...}} | m | the chat update format
\* | a JSON string and no object at all
Shapes == {"files", "files_meta", "mapping", "chat", "quoted"}

\* what surrounds the JSON text
Wrappers == {"bare", "padded", "fence", "fence_json", "prose", "truncated"}

\* "key": "content" pairs of m for the keys KeyOrder[i..], separated by ", "
RECURSIVE MemberToks(_, _, _)
MemberToks(m, i, first) ==
    IF i > Len(KeyOrder) THEN << >>
    ELSE IF KeyOrder[i] \notin DOMAIN m THEN MemberToks(m, i + 1, first)
    ELSE (IF first THEN << >> ELSE << Comma, Space >>)
         \o << Lit(KeyOrder[i]), Colon, Space, Lit(m[KeyOrder[i]]) >>
         \o MemberToks(m, i + 1, FALSE)

MapToks(m) == << LBrace >> \o MemberToks(m, 1, TRUE) \o << RBrace >>

\* ["key", "content"], for the keys KeyOrder[i..] of m, each with its comma
RECURSIVE PairToks(_, _)
PairToks(m, i) ==
    IF i > Len(KeyOrder) THEN << >>
    ELSE IF KeyOrder[i] \notin DOMAIN m THEN PairToks(m, i + 1)
    ELSE << LBracket, Lit(KeyOrder[i]), Comma, Space, Lit(m[KeyOrder[i]]), RBracket,
            Comma, Space >>
         \o PairToks(m, i + 1)

ShapeToks(shape, m) ==
    CASE shape = "files" ->
            << LBrace, Lit("files"), Colon, Space >> \o MapToks(m) \o << RBrace >>
      [] shape = "files_meta" ->
            << LBrace, Lit("metadata"), Colon, Space, LBrace, Lit("title"), Colon,
               Lit("t"), RBrace, Comma, Space, Lit("files"), Colon, Space >>
            \o MapToks(m) \o << RBrace >>
      [] shape = "mapping" -> MapToks(m)
      [] shape = "chat" ->
            << LBrace, Lit("message"), Colon, Space, Lit("done"), Comma, Space,
               Lit("files_updated"), Colon, Space >> \o MapToks(m) \o << RBrace >>
      [] shape = "quoted" -> << Lit("done") >>
      \* the update as a list of pairs that ends in an element that is no pair
      [] shape = "chat_list" ->
            << LBrace, Lit("message"), Colon, Space, Lit("done"), Comma, Space,
               Lit("files_updated"), Colon, Space, LBracket >>
            \o PairToks(m, 1) \o << Lit("oops"), RBracket, RBrace >>

WrapToks(wrapper, t) ==
    CASE wrapper = "bare" -> t
      [] wrapper = "padded" -> << Newline, Space >> \o t \o << Space, Newline >>
      [] wrapper = "fence" -> << Fence, Newline >> \o t \o << Newline, Fence >>
      [] wrapper = "fence_json" ->
            << Fence, Word("json"), Newline >> \o t \o << Newline, Fence, Newline >>
      [] wrapper = "prose" ->
            << Word("Here"), Space, Word("it"), Space, Word("is"), Colon, Newline >>
            \o t \o << Newline, Word("Enjoy") >>
      [] wrapper = "truncated" -> SubSeq(t, 1, Len(t) - 1)

ModelText(src) == WrapToks(src.wrapper, ShapeToks(src.shape, src.files))

InitCoerce ==
    /\ DeployInit({NoValue}, { [ r \in {} |-> NoFiles ] })
    /\ llm_src \in [ files : SourceMaps, shape : Shapes, wrapper : Wrappers ]
    /\ llm_text = ModelText(llm_src)
    /\ prompt \in Prompts
    /\ include_backend \in Backends
    /\ gen_out = [ kind |-> "none", files |-> << >>, metadata |-> << >>, raw |-> << >> ]
    /\ chat_out = [ kind |-> "none", dict |-> << >>, text |-> << >> ]
    /\ SessionInit

\* call_llm either returns text or raises (lines 45-75)
LlmOutcomes == {"reply", "raise"}

\* generate_website (lines 156-204)
Generate(outcome) ==
    /\ gen_out.kind = "none"
    /\ outcome \in LlmOutcomes
    /\ gen_out' = IF outcome = "raise"
                  THEN GenError("LLMError", << >>)
                  ELSE GenerateWebsite(llm_text, prompt, include_backend)
    /\ UNCHANGED << llm_src, llm_text, prompt, include_backend, chat_out >>
    /\ UNCHANGED << deployVars, sessVars >>

\* chat_response (lines 206-245)
Chat(outcome) ==
    /\ chat_out.kind = "none"
    /\ outcome \in LlmOutcomes
    /\ chat_out' = IF outcome = "raise"
                   THEN [ kind |-> "LLMError", dict |-> << >>, text |-> << >> ]
                   ELSE ChatResponse(llm_text)
    /\ UNCHANGED << llm_src, llm_text, prompt, include_backend, gen_out >>
    /\ UNCHANGED << deployVars, sessVars >>

NextCoerce ==
    \/ \E outcome \in LlmOutcomes : Generate(outcome)
    \/ \E outcome \in LlmOutcomes : Chat(outcome)

SpecCoerce == InitCoerce /\ [][NextCoerce]_vars

(***************************************************************************)
(* SpecSession: the session state of the page (src/main.py)                *)
(*                                                                         *)
(* Dicts are objects: heap[r] is the content of the dict with identity r,  *)
(* current_files and the "files" of a version are references.  Timestamps  *)
(* of versions are left out (time is not modelled).                        *)
(***************************************************************************)
\* session operations in one behaviour
MaxOps == 3

\* model texts of the session: a site, a fenced site, a chat update, a chat
\* update as a list of pairs that ends in a non-pair, a JSON string
SessionSources ==
    { [ files |-> ("index.html" :> "x"), shape |-> "files", wrapper |-> "bare" ],
      [ files |-> ("about.html" :> "y"), shape |-> "files", wrapper |-> "fence" ],
      [ files |-> ("index.html" :> "y" @@ "about.html" :> "x"),
        shape |-> "chat", wrapper |-> "bare" ],
      [ files |-> ("index.html" :> "y" @@ "about.html" :> "x"),
        shape |-> "chat_list", wrapper |-> "bare" ],
      [ files |-> EmptyMap, shape |-> "quoted", wrapper |-> "bare" ] }

SessionBackends == {"None", "Flask"}
EditedCode == {"edited"}

\* mutant: the dict itself handed on
CopyOf_Shared(h, r) == [ heap |-> h, ref |-> r ]

\* dict.copy(): a new dict object holding the items of the dict r
CopyOf(h, r) == [ heap |-> Append(h, h[r]), ref |-> Len(h) + 1 ]

Version(r, message) == [ files |-> r, message |-> message ]

\* mutant: no index.html in the fallback site
FallbackSite_NoIndex(pr) == ("styles.css" :> DefaultCss @@ "script.js" :> DefaultJs)

\* fallback_site(prompt) (utils.py lines 259-264)
FallbackSite(pr) ==
    ("index.html" :> DefaultIndex(pr) @@ "styles.css" :> DefaultCss
     @@ "script.js" :> DefaultJs)

\* mutant: the update taken as the new FileSet
DictMerge_Replace(f, g) == g

\* f.update(g) for a dict g
DictMerge(f, g) ==
    [ k \in DOMAIN f \cup DOMAIN g |-> IF k \in DOMAIN g THEN g[k] ELSE f[k] ]

\* f.update(q) for a list q, element by element from position i: a list of
\* two elements is a key and a value; another element raises, and the items
\* put before it stay.  (The elements of the model texts are lists of two
\* strings and strings of other lengths than two.)
RECURSIVE UpdateFromSeq(_, _, _)
UpdateFromSeq(f, q, i) ==
    IF i > Len(q) THEN [ files |-> f, raised |-> FALSE ]
    ELSE IF q[i].t = "arr" /\ Len(q[i].m) = 2 /\ q[i].m[1].t = "str"
         THEN UpdateFromSeq(MapPut(f, q[i].m[1].s, q[i].m[2]), q, i + 1)
    ELSE [ files |-> f, raised |-> TRUE ]

\* current_files.update(files_updated) (main.py line 137): the dict after the
\* call and whether the call raised
DictUpdate(f, v) ==
    CASE v.t = "obj" -> [ files |-> DictMerge(f, v.m), raised |-> FALSE ]
      [] v.t = "arr" -> UpdateFromSeq(f, v.m, 1)
      [] v.t = "str" -> [ files |-> f, raised |-> v.s # "" ]

UserSays == << Word("edit") >>

\* the "Generate" action of the page (main.py lines 214-247)
SessGenerate(src, outcome, pr, backend) ==
    /\ ops < MaxOps
    /\ outcome \in LlmOutcomes
    /\ LET r == IF outcome = "raise"
                THEN GenError("LLMError", << >>)
                ELSE GenerateWebsite(ModelText(src), pr, backend)
           ok == r.kind = "ok"
           \* gen_result["files"], or the dict fallback_site returns
           h1 == Append(heap, IF ok THEN r.files ELSE FallbackSite(pr))
           c == CopyOf(h1, Len(h1))
       IN  /\ heap' = c.heap
           /\ current_files' = Len(h1)
           /\ versions' = Append(versions,
                                 Version(c.ref, IF ok THEN pr
                                                ELSE "Fallback generated site due to error"))
           /\ llm_error' = IF ok THEN llm_error ELSE r.kind
           /\ last_op' = [ op |-> "generate",
                           how |-> IF ok THEN "generated" ELSE r.kind,
                           before |-> heap[current_files],
                           src |-> IF outcome = "raise" THEN NoSrc ELSE src ]
    /\ ops' = ops + 1
    /\ UNCHANGED chat_messages
    /\ UNCHANGED << deployVars, genVars >>

\* the "Send" button of the chat panel (main.py lines 117-157)
SessChat(src, outcome) ==
    /\ ops < MaxOps
    /\ outcome \in LlmOutcomes
    /\ LET said == Append(chat_messages, [ role |-> "user", text |-> UserSays ])
           reply == ChatResponse(ModelText(src))
           u == DictUpdate(heap[current_files], GetOr(reply.dict, "files_updated"))
           h1 == [ heap EXCEPT ![current_files] = u.files ]
           c == CopyOf(h1, current_files)
           before == heap[current_files]
           fallback == [ role |-> "assistant", text |-> << Word("fallback_chat_reply") >> ]
       IN  CASE outcome = "raise" ->
                  /\ llm_error' = "LLMError"
                  /\ chat_messages' = Append(said, fallback)
                  /\ last_op' = [ op |-> "chat", how |-> "LLMError", before |-> before,
                                  src |-> NoSrc ]
                  /\ UNCHANGED << heap, versions >>
             [] outcome = "reply" /\ reply.kind = "text" ->
                  /\ chat_messages' = Append(said, [ role |-> "assistant", text |-> reply.text ])
                  /\ last_op' = [ op |-> "chat", how |-> "text", before |-> before,
                                  src |-> src ]
                  /\ UNCHANGED << heap, versions, llm_error >>
             [] outcome = "reply" /\ reply.kind = "dict" /\ u.raised ->
                  /\ heap' = h1
                  /\ llm_error' = "UpdateError"
                  /\ chat_messages' = Append(said, fallback)
                  /\ last_op' = [ op |-> "chat", how |-> "UpdateError", before |-> before,
                                  src |-> src ]
                  /\ UNCHANGED versions
             [] outcome = "reply" /\ reply.kind = "dict" /\ ~ u.raised ->
                  /\ heap' = c.heap
                  /\ versions' = Append(versions, Version(c.ref, "Chat edit: edit"))
                  /\ chat_messages' =
                         Append(said,
                                [ role |-> "assistant",
                                  text |-> IF "message" \in DOMAIN reply.dict
                                           THEN << Word(reply.dict["message"].s) >>
                                           ELSE << Word("I've updated the files") >> ])
                  /\ last_op' = [ op |-> "chat", how |-> "updated", before |-> before,
                                  src |-> src ]
                  /\ UNCHANGED llm_error
    /\ ops' = ops + 1
    /\ UNCHANGED current_files
    /\ UNCHANGED << deployVars, genVars >>

\* the "Save File" button (main.py lines 260-276)
SessSave(fname, code) ==
    /\ ops < MaxOps
    /\ fname \in DOMAIN heap[current_files]
    /\ LET h1 == [ heap EXCEPT ![current_files] = MapPut(@, fname, StrVal(code)) ]
           c == CopyOf(h1, current_files)
       IN  /\ heap' = c.heap
           /\ versions' = Append(versions, Version(c.ref, "Edited " \o fname))
    /\ last_op' = [ op |-> "save", how |-> "saved", before |-> heap[current_files],
                    src |-> NoSrc ]
    /\ ops' = ops + 1
    /\ UNCHANGED << current_files, chat_messages, llm_error >>
    /\ UNCHANGED << deployVars, genVars >>

\* a "Restore Version" button (main.py lines 194-204)
SessRestore(k) ==
    /\ ops < MaxOps
    /\ k \in 1..Len(versions)
    /\ LET c == CopyOf(heap, versions[k].files)
       IN  /\ heap' = c.heap
           /\ current_files' = c.ref
    /\ last_op' = [ op |-> "restore", how |-> "restored", before |-> heap[current_files],
                    src |-> NoSrc ]
    /\ ops' = ops + 1
    /\ UNCHANGED << versions, chat_messages, llm_error >>
    /\ UNCHANGED << deployVars, genVars >>

InitSession ==
    /\ DeployInit({NoValue}, { [ r \in {} |-> NoFiles ] })
    /\ GenIdle
    /\ SessionInit

NextSession ==
    \/ \E src \in SessionSources, outcome \in LlmOutcomes, pr \in Prompts,
          backend \in SessionBackends : SessGenerate(src, outcome, pr, backend)
    \/ \E src \in SessionSources, outcome \in LlmOutcomes : SessChat(src, outcome)
    \/ \E fname \in GenKeys, code \in EditedCode : SessSave(fname, code)
    \/ \E k \in 1..MaxOps : SessRestore(k)

SpecSession == InitSession /\ [][NextSession]_vars


(***************************************************************************)
(* Reading the call log                                                    *)
(***************************************************************************)
Issued(op) == { i \in 1..Len(calls) : calls[i].op = op }

StatusOf(op) == IF Issued(op) = {} THEN NoValue ELSE calls[SetMax(Issued(op))].status

PutFor(f) == { i \in Issued("PUT contents") : calls[i].path = f }

ProbeFor(f) == { i \in Issued("GET contents") : calls[i].path = f }

\* files the service accepted in this invocation
Accepted == { i \in Issued("PUT contents") : calls[i].status = "ok" }

FileCalls == Issued("GET contents") \cup Issued("PUT contents")

\* a call made for file f failed: an error status on its upload, or a raise
FileFailed(f) ==
    \/ \E i \in PutFor(f) : calls[i].status \in {"rejected", "raise"}
    \/ \E i \in ProbeFor(f) : calls[i].status = "raise"

Finished == pc = "done" /\ runs >= 1

\* the dict handed back by "return" (line 101)
ReturnedDict == [ url |-> result.url ]

(***************************************************************************)
(* C1.  Upload step: a single file's failure does not abort the others.    *)
(* For every FileSet and every combination of probe and upload outcomes,   *)
(* a raise included, a create-or-update request is issued for every other  *)
(* file.  Stated as the claim is; the code breaks it (a raise leaves the   *)
(* loop).                                                                  *)
(***************************************************************************)
C1_FailureDoesNotAbortOthers ==
    Finished =>
        \A i, j \in 1..Len(files) :
            (i # j /\ FileFailed(files[i])) => PutFor(files[j]) # {}

(***************************************************************************)
(* C2.  Whenever k >= 1 files were uploaded, deploy succeeds, the          *)
(* hosting-enable call is attempted and the returned value carries the URL *)
(* and a count equal to k.  Stated as the claim is; the code returns the   *)
(* URL alone.                                                              *)
(***************************************************************************)
C2_PartialSuccessReturnsCount ==
    (Finished /\ Cardinality(Accepted) >= 1) =>
        /\ result.kind = "ok"
        /\ Issued("POST pages") # {}
        /\ ReturnedDict.url = PagesUrl(username, repo_name)
        /\ "count" \in DOMAIN ReturnedDict
        /\ ReturnedDict["count"] = Cardinality(Accepted)

(***************************************************************************)
(* C3.  If the upload step ends with zero files uploaded (every            *)
(* create-or-update request answered with an error status, or the FileSet  *)
(* empty), deploy fails with UploadError, no hosting-enable call is issued *)
(* and no URL is returned; a URL is returned, and hosting-enable issued,   *)
(* only in a run where at least one upload was accepted.                   *)
(***************************************************************************)
AllRejected ==
    \A k \in 1..Len(files) :
        /\ PutFor(files[k]) # {}
        /\ \A i \in PutFor(files[k]) : calls[i].status = "rejected"

UploadStepEntered ==
    \/ StatusOf("POST repos") \in {"created", "created_unnamed"}
    \/ StatusOf("GET repo") = "found"

C3_NoUploadNoUrl ==
    /\ (Finished /\ UploadStepEntered /\ AllRejected) =>
            /\ result.kind = "UploadError"
            /\ Issued("POST pages") = {}
            /\ result.url = NoValue
    /\ result.url # NoValue => Accepted # {}
    /\ Issued("POST pages") # {} => Accepted # {}

C3_Witness ==
    /\ Finished
    /\ Len(files) = 2
    /\ UploadStepEntered
    /\ AllRejected
    /\ result.kind = "UploadError"

C3_WitnessEmpty ==
    /\ Finished
    /\ files = <<>>
    /\ UploadStepEntered
    /\ result.kind = "UploadError"

(***************************************************************************)
(* C4.  deploy reaches the upload step exactly when create-repository      *)
(* answers 'created', or answers 'conflict' and the recheck answers        *)
(* 'found'.  When the recheck answers anything else, or create answers any *)
(* other status, it fails with RepoCreateError and issues no file probe,   *)
(* no upload and no hosting-enable call.                                   *)
(***************************************************************************)
InUploadStep ==
    \/ pc \in {"probe", "put", "pages"}
    \/ result.kind \in {"ok", "UploadError"}
    \/ FileCalls # {}
    \/ Issued("POST pages") # {}

RepoAccepted ==
    \/ StatusOf("POST repos") \in {"created", "created_unnamed"}
    \/ StatusOf("POST repos") = "conflict" /\ StatusOf("GET repo") = "found"

RepoRefused ==
    \/ StatusOf("POST repos") = "other"
    \/ StatusOf("POST repos") = "conflict" /\ StatusOf("GET repo") = "notfound"

C4_UploadIffRepoAccepted ==
    /\ InUploadStep <=> RepoAccepted
    /\ RepoAccepted => result.kind # "RepoCreateError"
    /\ RepoRefused =>
            /\ pc = "done"
            /\ result.kind = "RepoCreateError"
            /\ FileCalls = {}
            /\ Issued("POST pages") = {}
    /\ result.kind = "RepoCreateError" => RepoRefused

C4_Witness ==
    /\ StatusOf("POST repos") = "conflict"
    /\ StatusOf("GET repo") = "found"
    /\ pc = "put"

C4_WitnessRefused ==
    /\ StatusOf("POST repos") = "conflict"
    /\ StatusOf("GET repo") = "notfound"
    /\ result.kind = "RepoCreateError"

(***************************************************************************)
(* C5.  Deploy is idempotent with respect to the repository: a second      *)
(* deploy with the same raw name and a valid credential, against a service *)
(* that keeps its state and answers by it (and may canonicalize the name   *)
(* on creation), does not fail with a repository error, creates no second  *)
(* repository and updates the repository of the first call, sending each   *)
(* existing file's current version token.  Stated as the claim is; the     *)
(* code breaks it when the service canonicalized the name.                 *)
(***************************************************************************)
SecondOfTwo ==
    /\ Finished
    /\ runs = 2
    /\ prev.kind = "ok"
    /\ token \in ValidTokens
    /\ ~faulted

C5_IdempotentDeploy ==
    SecondOfTwo =>
        /\ result.kind # "RepoCreateError"
        /\ DOMAIN svc = prev.repos
        /\ repo_name = prev.repo
        /\ \A i \in Issued("PUT contents") : calls[i].status = "ok"

(***************************************************************************)
(* C6.  deploy with an absent or empty credential fails with AuthError     *)
(* before any network interaction: no call is made to the service, for     *)
(* every repository name and FileSet.                                      *)
(***************************************************************************)
C6_NoTokenNoCalls ==
    (token \in {NoValue, ""} /\ runs >= 1) =>
        /\ pc = "done"
        /\ result.kind = "AuthError"
        /\ calls = <<>>

C6_Witness ==
    /\ token = ""
    /\ Finished
    /\ Len(files) = 2
    /\ result.kind = "AuthError"

(***************************************************************************)
(* C7.  The network calls occur in the fixed order get-current-user,       *)
(* create-repository, the recheck (only after a conflict), the file probe  *)
(* and upload calls, hosting-enable; no call of a later step is issued     *)
(* before the earlier step completed successfully; a failed identity       *)
(* lookup ends the call with no repository, file or hosting request.       *)
(***************************************************************************)
Rank(op) ==
    CASE op = "GET user" -> 1
      [] op = "POST repos" -> 2
      [] op = "GET repo" -> 3
      [] op \in {"GET contents", "PUT contents"} -> 4
      [] op = "POST pages" -> 5

C7_CallOrder ==
    /\ \A i, j \in 1..Len(calls) :
          i < j => /\ Rank(calls[i].op) <= Rank(calls[j].op)
                   /\ Rank(calls[i].op) = Rank(calls[j].op) => Rank(calls[i].op) = 4
    /\ calls # <<>> => calls[1].op = "GET user"
    /\ Issued("POST repos") # {} => StatusOf("GET user") = "login"
    /\ Issued("GET repo") # {} => StatusOf("POST repos") = "conflict"
    /\ FileCalls # {} => RepoAccepted
    /\ Issued("POST pages") # {} =>
          /\ \A k \in 1..Len(files) : PutFor(files[k]) # {}
          /\ Accepted # {}
    /\ StatusOf("GET user") \in {"rejected", "nologin", "raise"} =>
          /\ Len(calls) = 1
          /\ pc = "done"
          /\ result.kind \in {"AuthError", "NetworkError"}
    /\ StatusOf("GET user") \in {"rejected", "nologin"} => result.kind = "AuthError"

C7_Witness ==
    /\ Finished
    /\ Len(calls) = 8
    /\ calls[3].op = "GET repo"
    /\ calls[8].op = "POST pages"

C7_WitnessNoLogin ==
    /\ Finished
    /\ StatusOf("GET user") = "nologin"
    /\ result.kind = "AuthError"

(***************************************************************************)
(* C8.  Hosting-enable is best-effort: once at least one file has          *)
(* uploaded, deploy returns the same successful result whatever the        *)
(* outcome of the hosting-enable call (success status, error status, or a  *)
(* raised network failure).                                                *)
(***************************************************************************)
C8_PagesBestEffort ==
    Issued("POST pages") # {} =>
        /\ pc = "done"
        /\ result.kind = "ok"
        /\ result.url = PagesUrl(Login, repo_name)

C8_Witness ==
    /\ Finished
    /\ StatusOf("POST pages") = "raise"
    /\ Cardinality(Accepted) = 1
    /\ Len(files) = 2
    /\ result.kind = "ok"

(***************************************************************************)
(* Reading a generation                                                    *)
(***************************************************************************)
Canonical == {"index.html", "styles.css", "script.js"}

Generated == gen_out.kind \notin {"none", "LLMError"}

\* the fixed default of a key
DefaultOf(key, pr, backend) ==
    CASE key = "index.html" -> StrVal("fallback index: " \o pr)
      [] key = "styles.css" -> StrVal("fallback css")
      [] key = "script.js" -> StrVal("fallback js")
      [] key = "backend.py" ->
            StrVal(IF backend = "FastAPI" THEN "fallback FastAPI" ELSE "fallback Flask")

\* the mapping m with the keys of `added` that it lacks set to their defaults
Merged(m, added) ==
    [ k \in DOMAIN m \cup added |->
        IF k \in DOMAIN m THEN StrVal(m[k])
        ELSE DefaultOf(k, prompt, include_backend) ]

NoMap == [ k \in {} |-> "x" ]

\* the model text is a well-formed JSON object, nothing around it but whitespace
WellFormed == llm_src.wrapper \in {"bare", "padded"} /\ llm_src.shape # "quoted"

\* the model text is a well-formed JSON object inside a fence or prose
Noisy == llm_src.wrapper \in {"fence", "fence_json", "prose"} /\ llm_src.shape # "quoted"

(***************************************************************************)
(* C9.  For model text that is a valid JSON object surrounded only by      *)
(* noise (a markdown fence with an optional 'json' tag, or prose before    *)
(* and after), the coercion used by generation recovers the same FileSet   *)
(* as for the bare JSON object, instead of failing.  Stated as the claim   *)
(* is; the code hands the text to json.loads as it is and fails.           *)
(***************************************************************************)
C9_NoiseIsStripped ==
    (Generated /\ Noisy) =>
        /\ gen_out.kind = "ok"
        /\ gen_out.files =
              GenerateWebsite(ShapeToks(llm_src.shape, llm_src.files),
                              prompt, include_backend).files

AddedKeys == Canonical \cup (IF include_backend = "None" THEN {} ELSE {"backend.py"})

C10_WitnessMapping ==
    /\ Generated
    /\ WellFormed
    /\ llm_src.shape = "mapping"
    /\ DOMAIN llm_src.files = {"index.html", "about.html"}
    /\ "about.html" \notin DOMAIN gen_out.files

(***************************************************************************)
(* C13: the name sent to the service                                       *)
(***************************************************************************)
Has(s, ch) == \E i \in 1..Len(s) : s[i] = ch

SetMin(S) == CHOOSE x \in S : \A y \in S : x <= y

\* s without its surrounding whitespace
TrimOf(s) ==
    LET solid == { i \in 1..Len(s) : s[i] \notin Whitespace }
    IN  IF solid = {} THEN <<>> ELSE SubSeq(s, SetMin(solid), SetMax(solid))

\* the last stretch of s between path separators, trailing separators aside
FinalSegmentOf(s) ==
    LET named == { i \in 1..Len(s) : s[i] # "/" }
        last == SetMax(named)
        seps == { i \in 1..last : s[i] = "/" }
    IN  IF named = {} THEN <<>>
        ELSE SubSeq(s, IF seps = {} THEN 1 ELSE SetMax(seps) + 1, last)

HyphenFor(ch) == IF ch = " " THEN "-" ELSE ch

\* the sanitized name as the specification words it
SanitizedOf(raw) ==
    LET t == TrimOf(raw)
        u == IF Has(t, "/") THEN FinalSegmentOf(t) ELSE t
    IN  [ i \in 1..Len(u) |-> HyphenFor(u[i]) ]

MySite == << "M", "y", "-", "S", "i", "t", "e" >>

\* C13: the name in the create-repository request is the raw name trimmed,
\* cut to its final path segment and with hyphens for spaces; it holds no
\* space and no "/", it is "My-Site" for "https://host/group/My Site ", and
\* after a conflict every later call carries the same name.
C13_SanitizedNameSent ==
    \A i \in 1..Len(calls) :
        calls[i].op = "POST repos" =>
            /\ calls[i].repo = SanitizedOf(raw_name)
            /\ ~ Has(calls[i].repo, " ")
            /\ ~ Has(calls[i].repo, "/")
            /\ raw_name = ExampleRaw => calls[i].repo = MySite
            /\ calls[i].status = "conflict" =>
                   \A j \in (i + 1)..Len(calls) : calls[j].repo = calls[i].repo

\* a name that needed trimming and hyphens went down the conflict path to a
\* returned URL
C13_Witness ==
    /\ raw_name = << " ", "a", " ", "b", " " >>
    /\ Finished
    /\ result.kind = "ok"
    /\ StatusOf("POST repos") = "conflict"
    /\ Issued("POST pages") # {}

C13_WitnessExample ==
    /\ raw_name = ExampleRaw
    /\ Issued("POST repos") # {}

(***************************************************************************)
(* C14: the service-confirmed name                                         *)
(***************************************************************************)
\* creation requests answered with a canonical name other than the one asked
Renamed ==
    { i \in Issued("POST repos") :
        calls[i].status = "created" /\ Canon(calls[i].repo) # calls[i].repo }

\* C14: once the creation succeeded under a canonical name that differs from
\* the requested one, every later call of the deploy (probes, uploads, the
\* pages call) names the repository by the canonical name, never by the
\* requested one, and a returned URL is built from the resolved username and
\* that canonical name.
C14_ConfirmedNameUsed ==
    \A i \in Renamed :
        /\ \A j \in (i + 1)..Len(calls) :
               /\ calls[j].repo = Canon(calls[i].repo)
               /\ calls[j].repo # calls[i].repo
        /\ result.kind = "ok" =>
               /\ username = Login
               /\ result.url = PagesUrl(Login, Canon(calls[i].repo))
               /\ result.url # PagesUrl(Login, calls[i].repo)

\* a renamed repository took an upload, the pages call was made and the URL
\* came back
C14_Witness ==
    /\ Renamed # {}
    /\ Finished
    /\ result.kind = "ok"
    /\ Accepted # {}
    /\ Issued("GET contents") # {}
    /\ Issued("POST pages") # {}

(***************************************************************************)
(* C15: probe, then upload, file by file                                   *)
(***************************************************************************)
\* C15: each create-or-update request comes right after the probe of the
\* same file, each answered probe is followed by that file's request and by
\* no other call, and the request carries a version token exactly when the
\* probe found the file, the token being the one the probe returned.
C15_ProbeThenPut ==
    /\ \A i \in Issued("PUT contents") :
           /\ i > 1
           /\ calls[i - 1].op = "GET contents"
           /\ calls[i - 1].path = calls[i].path
           /\ calls[i - 1].repo = calls[i].repo
           /\ (calls[i].sha # 0) <=> (calls[i - 1].status = "found")
           /\ calls[i - 1].status = "found" => calls[i].sha = calls[i - 1].sha
    /\ \A i \in Issued("GET contents") :
           i < Len(calls) =>
               /\ calls[i + 1].op = "PUT contents"
               /\ calls[i + 1].path = calls[i].path
    /\ pc = "put" =>
           /\ calls # <<>>
           /\ calls[Len(calls)].op = "GET contents"
           /\ calls[Len(calls)].path = files[idx]

\* one deploy updated a file the probe found and created one it did not find
C15_Witness ==
    /\ Finished
    /\ \E i, j \in Issued("PUT contents") :
           /\ calls[i].sha # 0
           /\ calls[j].sha = 0
           /\ calls[i].path # calls[j].path
           /\ calls[i].status = "ok"
           /\ calls[j].status = "ok"

(***************************************************************************)
(* C16: no deploy hangs                                                    *)
(***************************************************************************)
\* C16: a deploy invocation that has started and has not ended always has a
\* next step, also when the service leaves a request unanswered: the call
\* ends by a bounded timeout and the invocation goes on to return a result or
\* to fail.
C16_NoDeployHangs ==
    (runs >= 1 /\ pc # "done") => ENABLED NextSilent

(***************************************************************************)
(* C17: text that holds no JSON object                                     *)
(***************************************************************************)
Braces(t, b) == { i \in 1..Len(t) : t[i] = b }

\* a JSON object can be recovered from t: the stretch from its first "{" to
\* its last "}" is one (a bare, padded, fenced or prose-wrapped object is
\* found this way too)
Recoverable(t) ==
    /\ Braces(t, LBrace) # {}
    /\ Braces(t, RBrace) # {}
    /\ LET p == JsonLoads(SubSeq(t, SetMin(Braces(t, LBrace)), SetMax(Braces(t, RBrace))))
       IN  p.ok /\ p.val.t = "obj"

\* C17: when no JSON object can be recovered from the model text,
\* generate_website fails with the malformed-response error, the failure
\* carries the raw text, and no FileSet comes back.
C17_UnrecoverableFailsWithRaw ==
    (Generated /\ ~ Recoverable(llm_text)) =>
        /\ gen_out.kind = "RuntimeError"
        /\ gen_out.raw = llm_text
        /\ gen_out.files = EmptyMap

(***************************************************************************)
(* Reading the session                                                     *)
(***************************************************************************)
\* the current FileSet
Current == heap[current_files]

\* the FileSet of the k-th version
FilesOf(k) == heap[versions[k].files]

\* the last operation ended because the model call failed or its output could
\* not be parsed
FailedGenerate == last_op.op = "generate" /\ last_op.how \in {"RuntimeError", "LLMError"}
FailedChat == last_op.op = "chat" /\ last_op.how \in {"text", "LLMError"}

\* the fixed fallback FileSet: the three canonical keys with their defaults
IsFallback(f) ==
    /\ DOMAIN f = Canonical
    /\ \E pr \in Prompts : \A k \in Canonical : f[k] = DefaultOf(k, pr, "None")

(***************************************************************************)
(* C11.  Whenever a generation or a chat-edit ends because the model       *)
(* output could not be parsed, or the model call failed, the current       *)
(* FileSet after the operation equals the current FileSet before it, key   *)
(* for key.  Stated as the claim is; the failed generation puts the        *)
(* fallback site in its place.                                             *)
(***************************************************************************)
C11_FailedParseKeepsFiles ==
    (FailedGenerate \/ FailedChat) => Current = last_op.before

\* C11, amended: a chat-edit that ends on a failed model call or on a reply
\* that is no structured update leaves the current FileSet as it was; a
\* generation that ends on a failed model call or on unparsable output puts
\* the fixed fallback FileSet in its place, whole, and appends it to the
\* history as the newest version.
C11_FailedChatKeepsFailedGenerateFallsBack ==
    /\ FailedChat => Current = last_op.before
    /\ FailedGenerate =>
           /\ IsFallback(Current)
           /\ versions # << >>
           /\ FilesOf(Len(versions)) = Current
           /\ versions[Len(versions)].message = "Fallback generated site due to error"

\* a generation failed on unparsable output after the FileSet had been edited
C11_Witness ==
    /\ last_op.op = "generate"
    /\ last_op.how = "RuntimeError"
    /\ last_op.before # Placeholder
    /\ ~ IsFallback(last_op.before)

\* a chat-edit ended on a text reply after a site had been generated
C11_WitnessChat ==
    /\ FailedChat
    /\ last_op.how = "text"
    /\ Len(versions) >= 1

(***************************************************************************)
(* C12: the canonical keys                                                 *)
(***************************************************************************)
\* the files the model text of the last operation gave under "files"
GivenFiles ==
    IF last_op.src.shape = "files" THEN last_op.src.files ELSE EmptyMap

\* C12: in every session state, whatever generate, fallback, chat-edit, save
\* and restore operations led to it, the current FileSet holds index.html,
\* styles.css and script.js; after a generation each of the three is the
\* model's content where the model gave the key and the fixed default where
\* it did not.
C12_CanonicalKeysPresent ==
    /\ Canonical \subseteq DOMAIN Current
    /\ (last_op.op = "generate" /\ last_op.how = "generated") =>
           \E pr \in Prompts : \A k \in Canonical :
               Current[k] = IF k \in DOMAIN GivenFiles
                            THEN StrVal(GivenFiles[k])
                            ELSE DefaultOf(k, pr, "None")

\* a generation gave index.html only, after other operations
C12_Witness ==
    /\ last_op.op = "generate"
    /\ last_op.how = "generated"
    /\ DOMAIN GivenFiles = {"index.html"}
    /\ ops = MaxOps

\* a chat-edit added a file and an older version was restored after it
C12_WitnessRestore ==
    /\ last_op.op = "restore"
    /\ \E k \in 1..Len(versions) : "about.html" \in DOMAIN FilesOf(k)
    /\ "about.html" \notin DOMAIN Current

(***************************************************************************)
(* C18: recorded versions are never altered                                *)
(***************************************************************************)
\* what one step may do to the history
HistoryKept ==
    /\ Len(versions') \in { Len(versions), Len(versions) + 1 }
    /\ \A k \in 1..Len(versions) :
           /\ versions'[k].message = versions[k].message
           /\ heap'[versions'[k].files] = heap[versions[k].files]
    /\ \A k \in 1..Len(versions') :
           /\ versions'[k].files # current_files'
           /\ \A j \in 1..Len(versions') : j # k => versions'[j].files # versions'[k].files

\* C18: every step of a session leaves the versions already recorded in
\* place and with the files they were recorded with, adding at most one
\* version at the end; no recorded version is the dict object that is the
\* current FileSet, nor the object of another version, so the in-place save
\* and chat merge cannot reach it.
C18_VersionsNeverAltered == [][HistoryKept]_vars

\* generate, restore of that version, then a save in place: version 1 still
\* holds the generated files
C18_Witness ==
    /\ last_op.op = "save"
    /\ ops = 3
    /\ Len(versions) = 2
    /\ Len(heap) = 5
    /\ FilesOf(1) # FilesOf(2)
    /\ FilesOf(2) = Current

(***************************************************************************)
(* C19: the current FileSet is accounted for in the history                *)
(***************************************************************************)
\* C19: in every session state the current FileSet is the placeholder while
\* the history is empty and the files of some recorded version otherwise, and
\* right after a generate, a file-updating chat-edit or a save it is the
\* files of the newest version.
C19_CurrentAccountedFor ==
    /\ versions = << >> => Current = Placeholder
    /\ versions # << >> => \E k \in 1..Len(versions) : FilesOf(k) = Current
    /\ (last_op.op = "generate" \/ last_op.how \in {"updated", "saved"}) =>
           /\ versions # << >>
           /\ FilesOf(Len(versions)) = Current

====
